---- MODULE Spec2Model ----
(***************************************************************************)
(* DocuVision (backend/app/main.py): the authenticated document-ingestion  *)
(* service.  Time is counted in whole minutes.  A request is a slot that   *)
(* moves from one await of its handler to the next; the last response the  *)
(* server sent is kept in resp.                                            *)
(***************************************************************************)
EXTENDS Integers, Sequences, FiniteSets, TLC

VARIABLES users, documents, temp, hits, expirations, clock, openrouter_api_key,
          require_api_key, reg, held, up, resp

vars == <<users, documents, temp, hits, expirations, clock, openrouter_api_key,
          require_api_key, reg, held, up, resp>>

\* ------------------------------------------------------------------ bounds
MaxClock == 31
MaxDocs == 2
MaxTemp == 2
MaxHits == 11

\* --------------------------------------------------------------- settings
jwt_expire_minutes == 30
max_file_size == 10 * 1024 * 1024
allowed_file_types == {"image/jpeg", "image/png", "application/pdf"}
jwt_secret_key == "your-secret-key-here"
RateLimit == 10
RateWindow == 1

\* os.getenv("API_KEY"): the shared secret of the deployment
API_KEY == "key-1"

Emails == {"a@x.com", "b@x.com"}
Passwords == {"pw1", "pw2"}
RegSlots == {1, 2}
UpSlots == {1, 2}
Addrs == {"10.0.0.1"}

\* ---------------------------------------------------------------- helpers
NoUser == [id |-> 0, email |-> "", hashed_password |-> <<>>]

NoToken == [sub |-> "", exp |-> 0, key |-> ""]

NoResp == [op |-> "none", status |-> 0, detail |-> "", user |-> 0, body |-> <<>>]

Response(op, status, detail, user, body) ==
    [op |-> op, status |-> status, detail |-> detail, user |-> user, body |-> body]

\* ------------------------------------------------------------ auth utilities
get_password_hash(password) == <<"bcrypt", password>>

verify_password(plain_password, hashed_password) ==
    hashed_password = <<"bcrypt", plain_password>>

\* SELECT * FROM users WHERE email = $1 (fetchrow: a row or None)
fetch_user(email) ==
    IF \E u \in users : u.email = email
    THEN CHOOSE u \in users : u.email = email
    ELSE NoUser

create_access_token(sub, expires_delta) ==
    [sub |-> sub, exp |-> clock + expires_delta, key |-> jwt_secret_key]

\* A decode that verifies the signature alone
jwt_decode_unexpiring(token) == token.key = jwt_secret_key

\* jwt.decode: the signature verifies and the exp claim has not passed
jwt_decode_ok(token) ==
    /\ token.key = jwt_secret_key
    /\ token.exp >= clock

\* The user the token resolves to, or NoUser where the code raises 401.
get_current_user(token) ==
    IF token = NoToken THEN NoUser
    ELSE IF ~jwt_decode_ok(token) THEN NoUser
    ELSE fetch_user(token.sub)

\* -------------------------------------------------------------- auth endpoints
IdleReg == [pc |-> "idle", email |-> "", password |-> ""]

\* register_user up to the await of the INSERT: the SELECT and its check
RegisterSelect(r, email, password) ==
    /\ reg[r].pc = "idle"
    /\ IF fetch_user(email) # NoUser
       THEN /\ resp' = Response("register", 400, "Email already registered", 0, <<>>)
            /\ reg' = reg
       ELSE /\ reg' = [reg EXCEPT ![r] = [pc |-> "insert", email |-> email,
                                          password |-> password]]
            /\ resp' = resp
    /\ UNCHANGED <<users, documents, temp, hits, expirations, clock, openrouter_api_key, require_api_key, held, up>>

\* The users table: id is the primary key and email is UNIQUE.
InsertUserViolates(row) ==
    \E u \in users : u.email = row.email \/ u.id = row.id

\* register_user from the INSERT to the response
RegisterInsert(r) ==
    /\ reg[r].pc = "insert"
    /\ LET row == [id |-> Cardinality(users) + 1, email |-> reg[r].email,
                   hashed_password |-> get_password_hash(reg[r].password)]
       IN IF InsertUserViolates(row)
          THEN /\ users' = users
               /\ resp' = Response("register", 500, "Error during registration", 0, <<>>)
          ELSE /\ users' = users \cup {row}
               /\ resp' = Response("register", 200, reg[r].email, row.id, <<>>)
    /\ reg' = [reg EXCEPT ![r] = IdleReg]
    /\ UNCHANGED <<documents, temp, hits, expirations, clock, openrouter_api_key, require_api_key, held, up>>

login_for_access_token(username, password) ==
    /\ LET user == fetch_user(username)
       IN IF user = NoUser \/ ~verify_password(password, user.hashed_password)
          THEN /\ resp' = Response("login", 401, "Incorrect email or password", 0, <<>>)
               /\ held' = held
          ELSE /\ held' = create_access_token(user.email, jwt_expire_minutes)
               /\ resp' = Response("login", 200, "bearer", user.id, <<>>)
    /\ UNCHANGED <<users, documents, temp, hits, expirations, clock, openrouter_api_key, require_api_key, reg, up>>

\* GET /api/auth/me
read_users_me(token) ==
    /\ LET current_user == get_current_user(token)
       IN IF current_user = NoUser
          THEN resp' = Response("me", 401, IF token = NoToken THEN "Not authenticated"
                                           ELSE "Could not validate credentials", 0, <<>>)
          ELSE resp' = Response("me", 200, current_user.email, current_user.id, <<>>)
    /\ UNCHANGED <<users, documents, temp, hits, expirations, clock, openrouter_api_key, require_api_key, reg, held, up>>

\* Tokens a client can present: the one it holds, that token re-signed with
\* another key, that token for an email nobody registered, or none.
Forged(token) == [token EXCEPT !.key = "other-key"]
Stranger(token) == [token EXCEPT !.sub = "nobody@x.com"]
Presented == {held, Forged(held), Stranger(held), NoToken}

Tick ==
    /\ clock < MaxClock
    /\ \E d \in {1, jwt_expire_minutes} :
          /\ clock + d <= MaxClock
          /\ clock' = clock + d
    /\ UNCHANGED <<users, documents, temp, hits, expirations, openrouter_api_key, require_api_key,
                   reg, held, up, resp>>

\* ------------------------------------------------------------- file intake
NoFile == [present |-> FALSE, filename |-> "", content_type |-> "", chunks |-> <<>>]

Ok == [status |-> 0, detail |-> ""]

Error(status, detail) == [status |-> status, detail |-> detail]

\* A size check that looks at each chunk alone, without the running count
TooLargePerChunk(chunks, file_size) ==
    \E i \in 1..Len(chunks) : chunks[i] > max_file_size

\* The loop of validate_file: the running byte count passes max_file_size
RECURSIVE TooLarge(_, _)
TooLarge(chunks, file_size) ==
    IF chunks = <<>> THEN FALSE
    ELSE IF file_size + Head(chunks) > max_file_size THEN TRUE
    ELSE TooLarge(Tail(chunks), file_size + Head(chunks))

validate_file(file) ==
    IF file.filename = "" THEN Error(400, "No file uploaded")
    ELSE IF file.content_type \notin allowed_file_types
         THEN Error(415, "Unsupported file type")
    ELSE IF TooLarge(file.chunks, 0) THEN Error(413, "File too large")
    ELSE Ok

\* The parameters of create_document_endpoint, solved in the order they are
\* declared: file = Depends(validate_file), then current_user =
\* Depends(get_current_user).  A request with no file part never reaches
\* validate_file: the missing field is a RequestValidationError, reported
\* (by validation_exception_handler, 422) once every dependency is solved.
SolveDependencies(file, token) ==
    LET checked == IF file.present THEN validate_file(file) ELSE Ok
        current_user == get_current_user(token)
    IN  IF checked.status # 0
        THEN [status |-> checked.status, detail |-> checked.detail, user |-> NoUser]
        ELSE IF current_user = NoUser
        THEN [status |-> 401,
              detail |-> IF token = NoToken THEN "Not authenticated"
                         ELSE "Could not validate credentials",
              user |-> NoUser]
        ELSE IF ~file.present
        THEN [status |-> 422, detail |-> "Validation error", user |-> NoUser]
        ELSE [status |-> 0, detail |-> "", user |-> current_user]

\* ------------------------------------------------------------ rate limiting
\* The limiter's in-memory storage: a counter per client address and the time
\* the counter expires; an expired counter reads 0.
storage_get(a) == IF expirations[a] <= clock THEN 0 ELSE hits[a]

\* limiter.limit("10/minute"): count the request, allow it up to RateLimit
limiter_allows(a) == storage_get(a) + 1 <= RateLimit

limiter_hit(a) ==
    /\ hits' = [hits EXCEPT ![a] = storage_get(a) + 1]
    /\ expirations' = [expirations EXCEPT
                         ![a] = IF storage_get(a) = 0 THEN clock + RateWindow ELSE @]

\* ------------------------------------------------------------ the pipeline
IdleUp == [pc |-> "idle", user |-> 0, filename |-> "", file_location |-> 0,
           extracted_text |-> "", analysis |-> <<>>,
           ocr_calls |-> 0, analysis_calls |-> 0, inserted |-> 0]

\* uuid4: a path no file of the temp directory has
FreshPath == CHOOSE n \in 1..(Cardinality(temp) + 1) : n \notin temp

\* An error response: the background tasks of the request are dropped with it
Fail(r, status, detail) ==
    /\ up' = [up EXCEPT ![r] = IdleUp]
    /\ resp' = Response("upload", status, detail, 0, <<>>)

\* create_document_endpoint from the arrival of the request to the await of
\* the OCR call: dependencies, rate limit, temp file, cleanup task
Upload(r, token, file, a) ==
    /\ up[r].pc = "idle"
    /\ LET dep == SolveDependencies(file, token)
       IN IF dep.status # 0
          THEN /\ resp' = Response("upload", dep.status, dep.detail, 0, <<>>)
               /\ UNCHANGED <<hits, expirations, temp, up>>
          ELSE /\ storage_get(a) < MaxHits
               /\ limiter_hit(a)
               /\ IF ~limiter_allows(a)
                  THEN /\ resp' = Response("upload", 429, "10 per 1 minute", 0, <<>>)
                       /\ UNCHANGED <<temp, up>>
                  ELSE IF Cardinality(temp) >= MaxTemp
                  THEN /\ resp' = Response("upload", 500, "Error processing document",
                                           0, <<>>)
                       /\ UNCHANGED <<temp, up>>
                  ELSE /\ temp' = temp \cup {FreshPath}
                       /\ up' = [up EXCEPT ![r] =
                                   [IdleUp EXCEPT !.pc = "ocr",
                                                  !.user = dep.user.id,
                                                  !.filename = file.filename,
                                                  !.file_location = FreshPath,
                                                  !.ocr_calls = 1]]
                       /\ resp' = resp
    /\ UNCHANGED <<users, documents, clock, openrouter_api_key, require_api_key, reg, held>>

\* The X-API-KEY header of a request: "" where the header is absent
\* (APIKeyHeader with auto_error = False yields None)
get_api_key(api_key) ==
    IF require_api_key /\ (api_key = "" \/ api_key # API_KEY)
    THEN Error(401, "Invalid or missing API Key")
    ELSE Ok

\* A request to POST /api/documents/ with its X-API-KEY header.  The route
\* declares validate_file, get_current_user and get_db_conn and nothing
\* else: get_api_key is the dependency of no route, and no code reads the
\* header.
Request(r, api_key, token, file, a) == Upload(r, token, file, a)

\* An extraction that trusts any 2xx answer of the provider
ocr_space_extract_unchecked(answer) ==
    CASE answer = "http_error" -> [status |-> 502, detail |-> "OCR service unavailable"]
      [] answer = "timeout" -> [status |-> 504, detail |-> "OCR service timeout"]
      [] answer = "network_error" -> [status |-> 500, detail |-> "Error processing document"]
      [] OTHER -> [status |-> 0, detail |-> ""]

\* What ocr_space_extract does with the provider's answer: the text, or the
\* error it raises (500: an exception the endpoint maps to "Error processing
\* document")
ocr_space_extract(answer) ==
    CASE answer = "http_error" -> Error(502, "OCR service unavailable")
      [] answer = "timeout" -> Error(504, "OCR service timeout")
      [] answer = "network_error" -> Error(500, "Error processing document")
      [] answer = "errored" -> Error(422, "OCR error")
      [] answer = "no_results" -> Error(422, "No text detected in document")
      [] OTHER -> Ok

ParsedText(answer) == IF answer = "empty_text" THEN "" ELSE "lorem ipsum"

OcrReply(r, answer) ==
    /\ up[r].pc = "ocr"
    /\ LET res == ocr_space_extract(answer)
       IN IF res.status # 0
          THEN Fail(r, res.status, res.detail)
          ELSE /\ up' = [up EXCEPT ![r].pc = IF openrouter_api_key THEN "analysis"
                                              ELSE "store",
                                   ![r].extracted_text = ParsedText(answer),
                                   ![r].analysis_calls =
                                       IF openrouter_api_key THEN @ + 1 ELSE @]
               /\ resp' = resp
    /\ UNCHANGED <<users, documents, temp, hits, expirations, clock,
                   openrouter_api_key, require_api_key, reg, held>>

\* What analyze_document_with_openrouter does with the provider's answer
analyze_document_with_openrouter(answer) ==
    CASE answer = "http_error" -> Error(502, "AI analysis service unavailable")
      [] answer = "timeout" -> Error(500, "Error processing document")
      [] answer = "invalid_json" -> Error(422, "AI returned invalid response format")
      [] OTHER -> Ok

AnalysisResult == [document_type |-> "invoice", summary |-> "a summary",
                   extracted_data |-> "fields"]

AnalysisReply(r, answer) ==
    /\ up[r].pc = "analysis"
    /\ LET res == analyze_document_with_openrouter(answer)
       IN IF res.status # 0
          THEN Fail(r, res.status, res.detail)
          ELSE /\ up' = [up EXCEPT ![r].pc = "store",
                                   ![r].analysis = <<AnalysisResult>>]
               /\ resp' = resp
    /\ UNCHANGED <<users, documents, temp, hits, expirations, clock,
                   openrouter_api_key, require_api_key, reg, held>>

\* create_document: the row of the INSERT
create_document(user_id, filename, ocr_text, analysis) ==
    [id |-> Len(documents) + 1, user_id |-> user_id, filename |-> filename,
     ocr_text |-> ocr_text, analysis |-> analysis]

\* The INSERT answers; on success the endpoint returns and the response is sent
StoreReply(r, ok) ==
    /\ up[r].pc = "store"
    /\ IF ~ok \/ Len(documents) >= MaxDocs
       THEN /\ Fail(r, 500, "Error processing document")
            /\ documents' = documents
       ELSE LET row == create_document(up[r].user, up[r].filename,
                                       up[r].extracted_text, up[r].analysis)
            IN /\ documents' = Append(documents, row)
               /\ up' = [up EXCEPT ![r].pc = "cleanup", ![r].inserted = @ + 1]
               /\ resp' = Response("upload", 200, "Document processed and stored",
                                   up[r].user, <<row>>)
    /\ UNCHANGED <<users, temp, hits, expirations, clock, openrouter_api_key, require_api_key, reg, held>>

\* cleanup_file: the path is removed if it exists
cleanup_file(file_path) == temp \ {file_path}

\* The background task of a sent response
Cleanup(r) ==
    /\ up[r].pc = "cleanup"
    /\ temp' = cleanup_file(up[r].file_location)
    /\ up' = [up EXCEPT ![r] = IdleUp]
    /\ UNCHANGED <<users, documents, hits, expirations, clock, openrouter_api_key, require_api_key,
                   reg, held, resp>>

\* ---------------------------------------------------------- record store
Min(a, b) == IF a < b THEN a ELSE b

RECURSIVE Reverse(_)
Reverse(s) == IF s = <<>> THEN <<>> ELSE Append(Reverse(Tail(s)), Head(s))

\* A filter that forgets the owner
OwnedByAnyone(d, user_id) == TRUE

\* The user_id = $n condition of both queries
OwnedBy(d, user_id) == d.user_id = user_id

\* SELECT ... WHERE id = $1 AND user_id = $2: the row, or none
get_document(doc_id, user_id) ==
    SelectSeq(documents, LAMBDA d : d.id = doc_id /\ OwnedBy(d, user_id))

\* SELECT ... WHERE user_id = $1 ORDER BY created_at DESC LIMIT $2 OFFSET $3
list_documents(user_id, limit, offset) ==
    LET mine == Reverse(SelectSeq(documents, LAMBDA d : OwnedBy(d, user_id)))
    IN  SubSeq(mine, offset + 1, Min(Len(mine), offset + limit))

\* GET /api/documents/: limited is the answer of the 60/minute limiter
ListResponse(token, limit, offset, limited) ==
    LET current_user == get_current_user(token)
    IN  IF current_user = NoUser
        THEN Response("list", 401, "Could not validate credentials", 0, <<>>)
        ELSE IF ~(limit > 0 /\ limit <= 100 /\ offset >= 0)
        THEN Response("list", 422, "Validation error", 0, <<>>)
        ELSE IF limited
        THEN Response("list", 429, "60 per 1 minute", 0, <<>>)
        ELSE Response("list", 200, "", current_user.id,
                      list_documents(current_user.id, limit, offset))

list_documents_endpoint(token, limit, offset, limited) ==
    /\ resp' = ListResponse(token, limit, offset, limited)
    /\ UNCHANGED <<users, documents, temp, hits, expirations, clock,
                   openrouter_api_key, require_api_key, reg, held, up>>

\* GET /api/documents/{doc_id}
GetResponse(token, doc_id, limited) ==
    LET current_user == get_current_user(token)
    IN  IF current_user = NoUser
        THEN Response("get", 401, "Could not validate credentials", 0, <<>>)
        ELSE IF limited
        THEN Response("get", 429, "60 per 1 minute", 0, <<>>)
        ELSE IF get_document(doc_id, current_user.id) = <<>>
        THEN Response("get", 404, "Document not found", current_user.id, <<>>)
        ELSE Response("get", 200, "", current_user.id,
                      get_document(doc_id, current_user.id))

get_document_endpoint(token, doc_id, limited) ==
    /\ resp' = GetResponse(token, doc_id, limited)
    /\ UNCHANGED <<users, documents, temp, hits, expirations, clock,
                   openrouter_api_key, require_api_key, reg, held, up>>

\* ------------------------------------------------------------------ inputs
TokenA == [sub |-> "a@x.com", exp |-> jwt_expire_minutes, key |-> jwt_secret_key]
TokenB == [sub |-> "b@x.com", exp |-> jwt_expire_minutes + 1, key |-> jwt_secret_key]
TokenOld == [sub |-> "a@x.com", exp |-> jwt_expire_minutes - 1, key |-> jwt_secret_key]
TokenInputs == {NoToken, TokenA, TokenB, TokenOld, Forged(TokenA), Stranger(TokenA)}

Bodies == {<<max_file_size>>, <<max_file_size, 1>>}
FileInputs ==
    {NoFile} \cup
    [present : {TRUE}, filename : {"", "scan.png"},
     content_type : {"image/png", "text/plain"}, chunks : Bodies]

OcrAnswers == {"text", "empty_text", "errored", "no_results", "http_error",
               "timeout", "network_error"}
AnalysisAnswers == {"json", "invalid_json", "http_error", "timeout"}

\* ---------------------------------------------------------- specifications
InitAuth ==
    /\ users = {}
    /\ documents = <<>>
    /\ temp = {}
    /\ hits = [a \in Addrs |-> 0]
    /\ expirations = [a \in Addrs |-> 0]
    /\ clock = 0
    /\ openrouter_api_key = FALSE
    /\ require_api_key = FALSE
    /\ reg = [r \in RegSlots |-> IdleReg]
    /\ held = NoToken
    /\ up = [r \in UpSlots |-> IdleUp]
    /\ resp = NoResp

\* The service some time after startup: two registered users
Registered ==
    {[id |-> 1, email |-> "a@x.com", hashed_password |-> get_password_hash("pw1")],
     [id |-> 2, email |-> "b@x.com", hashed_password |-> get_password_hash("pw2")]}

InitService(key, now) ==
    /\ users = Registered
    /\ documents = <<>>
    /\ temp = {}
    /\ hits = [a \in Addrs |-> 0]
    /\ expirations = [a \in Addrs |-> 0]
    /\ clock = now
    /\ openrouter_api_key = key
    /\ require_api_key = FALSE
    /\ reg = [r \in RegSlots |-> IdleReg]
    /\ held = NoToken
    /\ up = [r \in UpSlots |-> IdleUp]
    /\ resp = NoResp

\* Registration and login, from an empty database
Register == \E r \in RegSlots, e \in Emails, p \in Passwords : RegisterSelect(r, e, p)
RegisterDone == \E r \in RegSlots : RegisterInsert(r)
Login == \E e \in Emails, p \in Passwords : login_for_access_token(e, p)

NextRegister == Register \/ RegisterDone \/ Login

SpecRegister == InitAuth /\ [][NextRegister]_vars

\* Tokens over time
Me == \E t \in Presented : read_users_me(t)

InitToken == InitService(FALSE, 0)

NextToken == Login \/ Me \/ Tick

SpecToken == InitToken /\ [][NextToken]_vars

Sweep == Cleanup(1)

\* Uploads that go through and the two read endpoints, over the end of a
\* rate-limit window and the expiry of a token
GoodFile == [present |-> TRUE, filename |-> "scan.png", content_type |-> "image/png",
             chunks |-> <<max_file_size>>]
ReadTokens == {NoToken, TokenA, TokenB}
Limits == {0, 1, 10}
Offsets == {0, 1}
DocIds == 1..(MaxDocs + 1)

InitStore == InitService(FALSE, jwt_expire_minutes)

ArriveGood == \E t \in {TokenA, TokenB}, a \in Addrs : Upload(1, t, GoodFile, a)
OcrGood == \E o \in {"text", "no_results"} : OcrReply(1, o)
StoreGood == StoreReply(1, TRUE)
List == \E t \in ReadTokens, l \in Limits, o \in Offsets, lim \in BOOLEAN :
           list_documents_endpoint(t, l, o, lim)
Get == \E t \in ReadTokens, d \in DocIds, lim \in BOOLEAN :
          get_document_endpoint(t, d, lim)

NextStore == ArriveGood \/ OcrGood \/ StoreGood \/ Sweep \/ List \/ Get \/ Tick

SpecStore == InitStore /\ [][NextStore]_vars

\* Two uploads in flight, with and without the analysis key
InitConc == \E key \in BOOLEAN : InitService(key, jwt_expire_minutes)

ArriveAny == \E r \in UpSlots, t \in {TokenA, TokenB, NoToken}, a \in Addrs :
                Upload(r, t, GoodFile, a)
OcrAny == \E r \in UpSlots, o \in OcrAnswers \ {"empty_text", "network_error"} :
             OcrReply(r, o)
AnalysisAny == \E r \in UpSlots, o \in AnalysisAnswers : AnalysisReply(r, o)
StoreAny == \E r \in UpSlots, ok \in BOOLEAN : StoreReply(r, ok)
SweepAny == \E r \in UpSlots : Cleanup(r)

NextConc == ArriveAny \/ OcrAny \/ AnalysisAny \/ StoreAny \/ SweepAny

SpecConc == InitConc /\ [][NextConc]_vars

\* One upload at a time, with every input and every provider answer
Init == InitService(TRUE, jwt_expire_minutes)

Arrive == \E t \in TokenInputs, f \in FileInputs, a \in Addrs : Upload(1, t, f, a)
Ocr == \E o \in OcrAnswers : OcrReply(1, o)
Analysis == \E o \in AnalysisAnswers : AnalysisReply(1, o)
Store == \E ok \in BOOLEAN : StoreReply(1, ok)

Next == Arrive \/ Ocr \/ Analysis \/ Store \/ Sweep

Spec == Init /\ [][Next]_vars

\* API-key mode switched on (REQUIRE_API_KEY=true): one upload at a time
KeyInputs == {"", "key-1", "key-2"}

InitGuard ==
    /\ users = Registered
    /\ documents = <<>>
    /\ temp = {}
    /\ hits = [a \in Addrs |-> 0]
    /\ expirations = [a \in Addrs |-> 0]
    /\ clock = jwt_expire_minutes
    /\ openrouter_api_key = FALSE
    /\ require_api_key = TRUE
    /\ reg = [r \in RegSlots |-> IdleReg]
    /\ held = NoToken
    /\ up = [r \in UpSlots |-> IdleUp]
    /\ resp = NoResp

ArriveKeyed ==
    \E k \in KeyInputs, t \in ReadTokens, a \in Addrs :
        Request(1, k, t, GoodFile, a)

NextGuard == ArriveKeyed \/ OcrGood \/ StoreGood \/ Sweep

SpecGuard == InitGuard /\ [][NextGuard]_vars

\* ------------------------------------------------------------------ claims
InFlight(r) == up[r].pc # "idle"

\* C1: the temp file of an upload is absent from the temp directory once the
\* request has completed, on every exit path: every file of the temp
\* directory belongs to a request that is still being handled.
C1_TempFilesBelongToRequests ==
    \A f \in temp : \E r \in UpSlots : InFlight(r) /\ up[r].file_location = f

\* C2: an upload request with no valid bearer token is answered 401, whatever
\* its file is, and writes no temp file.
C2_UnauthenticatedIs401 ==
    [][\A r \in UpSlots, t \in TokenInputs, f \in FileInputs, a \in Addrs :
          (Upload(r, t, f, a) /\ get_current_user(t) = NoUser)
             => (resp'.status = 401 /\ temp' = temp)]_vars

\* C3: a reply of the analysis provider that is not the expected JSON does not
\* fail the request: the request goes on to store a record whose analysis has
\* document_type "unknown".
C3_InvalidJsonDegrades ==
    [][\A r \in UpSlots :
          AnalysisReply(r, "invalid_json")
             => /\ up'[r].pc = "store"
                /\ Len(up'[r].analysis) = 1
                /\ up'[r].analysis[1].document_type = "unknown"]_vars

RECURSIVE Sum(_)
Sum(chunks) == IF chunks = <<>> THEN 0 ELSE Head(chunks) + Sum(Tail(chunks))

Oversized(f) == f.present /\ Sum(f.chunks) > max_file_size

NothingStarted == documents' = documents /\ temp' = temp /\ up' = up

\* C4 as stated: every upload whose body exceeds max_file_size is answered 413
\* and creates no record, no temp file and no OCR call.
C4_OversizedIs413 ==
    [][\A f \in {g \in FileInputs : Oversized(g)} :
          \A r \in UpSlots, t \in TokenInputs, a \in Addrs :
             Upload(r, t, f, a) => (resp'.status = 413 /\ NothingStarted)]_vars

\* C4 as amended: an upload whose body exceeds max_file_size is answered 413
\* when it has a filename and an allowed content type (400 without a filename,
\* else 415 for another content type), and in each case creates no record, no
\* temp file and no OCR call.
C4_OversizedIsRejected ==
    [][\A f \in {g \in FileInputs : Oversized(g)} :
          \A r \in UpSlots, t \in TokenInputs, a \in Addrs :
             Upload(r, t, f, a)
                => /\ resp'.status = IF f.filename = "" THEN 400
                                     ELSE IF f.content_type \notin allowed_file_types
                                     THEN 415 ELSE 413
                   /\ NothingStarted]_vars

C4_Witness == resp.op = "upload" /\ resp.status = 413

\* C5: list returns only records of the asking user, and get on a record of
\* another user answers exactly as get on an id that does not exist: 404.
C5_OnlyOwnRecords ==
    /\ resp.op \in {"list", "get"}
          => \A i \in 1..Len(resp.body) : resp.body[i].user_id = resp.user
    /\ \A t \in ReadTokens, l \in Limits, o \in Offsets :
          LET u == get_current_user(t)
              page == ListResponse(t, l, o, FALSE).body
          IN  \A i \in 1..Len(page) : u # NoUser /\ page[i].user_id = u.id
    /\ \A t \in ReadTokens, d \in 1..Len(documents) :
          LET u == get_current_user(t)
          IN  (u # NoUser /\ documents[d].user_id # u.id)
                 => /\ GetResponse(t, documents[d].id, FALSE).status = 404
                    /\ GetResponse(t, documents[d].id, FALSE)
                          = GetResponse(t, Len(documents) + 1, FALSE)

C5_Witness ==
    /\ resp.op = "list" /\ resp.status = 200 /\ Len(resp.body) >= 1
    /\ \E d \in 1..Len(documents) : documents[d].user_id # resp.user

OcrFailures == {"errored", "no_results", "http_error", "timeout"}
AnalysisFailures == {"http_error", "timeout"}

FailsWithoutRecord(r) ==
    /\ ~InFlight(r)'
    /\ resp'.op = "upload" /\ resp'.status >= 400
    /\ documents' = documents
    /\ up[r].inserted = 0

\* C6: a failed OCR or analysis call ends the request with an error, without a
\* second call and without a record; a record is inserted only by a request
\* whose extraction succeeded and whose analysis, if the key is configured,
\* returned a result; that request answers 200 and has inserted exactly one
\* record, owned by the user its token resolved to.
C6_RecordOnlyAfterPipeline ==
    [][/\ \A r \in UpSlots :
             /\ \A o \in OcrFailures : OcrReply(r, o) => FailsWithoutRecord(r)
             /\ \A o \in AnalysisFailures : AnalysisReply(r, o) => FailsWithoutRecord(r)
             /\ up'[r].ocr_calls <= 1 /\ up'[r].analysis_calls <= 1
             /\ (up[r].pc = "cleanup" /\ ~InFlight(r)') => up[r].inserted = 1
             /\ (~InFlight(r) /\ InFlight(r)')
                   => \A t \in TokenInputs, f \in FileInputs, a \in Addrs :
                         Upload(r, t, f, a)
                            => \E u \in users : u.email = t.sub /\ u.id = up'[r].user
       /\ documents' # documents
             => \E r \in UpSlots :
                   /\ up[r].pc = "store" /\ up'[r].pc = "cleanup"
                   /\ up[r].ocr_calls = 1
                   /\ up[r].analysis_calls = IF openrouter_api_key THEN 1 ELSE 0
                   /\ Len(up[r].analysis) = up[r].analysis_calls
                   /\ up[r].inserted = 0 /\ up'[r].inserted = 1
                   /\ Len(documents') = Len(documents) + 1
                   /\ SubSeq(documents', 1, Len(documents)) = documents
                   /\ documents'[Len(documents')].user_id = up[r].user
                   /\ resp'.op = "upload" /\ resp'.status = 200
                   /\ resp'.body = <<documents'[Len(documents')]>>
       /\ (resp' # resp /\ resp'.op = "upload" /\ resp'.status = 200)
             => Len(documents') = Len(documents) + 1]_vars

C6_Witness ==
    /\ resp.op = "upload" /\ resp.status = 200
    /\ Len(documents) = 2 /\ documents[1].user_id # documents[2].user_id
    /\ \E r \in UpSlots : up[r].pc = "cleanup" /\ up[r].inserted = 1

\* C7: a register request ends in 200 or, when the email is already present,
\* in 400, whatever the interleaving of concurrent requests, and no two stored
\* users share an email.
C7_RegisterIs200Or400 ==
    /\ resp.op = "register" => resp.status \in {200, 400}
    /\ \A u \in users, v \in users : u.email = v.email => u = v

\* C8: the token a login issued for a user expires jwt_expire_minutes later;
\* presented before its expiry it resolves to that user, presented after its
\* expiry it is answered 401, and so is a token whose signature does not
\* verify or whose email matches no stored user.
C8_TokenResolvesUntilExpiry ==
    [][/\ \A e \in Emails, p \in Passwords :
             (login_for_access_token(e, p) /\ resp'.status = 200)
                => /\ held'.sub = e
                   /\ held'.exp = clock + jwt_expire_minutes
                   /\ \E u \in users : u.email = e /\ u.id = resp'.user
       /\ held # NoToken
             => /\ (read_users_me(held) /\ clock < held.exp)
                      => /\ resp'.status = 200
                         /\ \E u \in users : /\ u.email = held.sub
                                             /\ u.id = resp'.user
                                             /\ resp'.detail = u.email
                /\ (read_users_me(held) /\ clock > held.exp) => resp'.status = 401
                /\ read_users_me(Forged(held)) => resp'.status = 401
                /\ read_users_me(Stranger(held)) => resp'.status = 401]_vars

C8_Witness ==
    /\ held # NoToken /\ clock > held.exp
    /\ resp.op = "me" /\ resp.status = 401

\* C9: once the limiter has counted RateLimit upload requests of an address in
\* the current window, every further upload request of that address in the
\* window (the 11th and later) is answered 429.
C9_EleventhIs429 ==
    [][\A a \in Addrs :
          storage_get(a) >= RateLimit
             => \A r \in UpSlots, t \in TokenInputs, f \in FileInputs :
                   Upload(r, t, f, a) => resp'.status = 429]_vars

\* C10: an upload request with no file, or with a file part that has no
\* filename, is answered 400 "No file uploaded" and writes nothing.
C10_NoFileIs400 ==
    [][\A r \in UpSlots, t \in TokenInputs, f \in FileInputs, a \in Addrs :
          (Upload(r, t, f, a) /\ (~f.present \/ f.filename = ""))
             => /\ resp'.status = 400
                /\ resp'.detail = "No file uploaded"
                /\ NothingStarted]_vars

\* C11: in API-key mode a request to the upload endpoint whose X-API-KEY
\* header is missing or differs from the shared secret is answered 401
\* before the handler body runs (no temp file, no counted hit, no OCR call).
C11_BadKeyIs401 ==
    [][\A k \in KeyInputs, t \in ReadTokens, a \in Addrs :
          (get_api_key(k).status = 401 /\ Request(1, k, t, GoodFile, a))
          => /\ resp'.status = 401
             /\ UNCHANGED <<temp, up, hits>>]_vars

\* C12: in an upload request, a provider call that exceeds its timeout (the
\* OCR call or the analysis call) ends the request with 504 GatewayTimeout
\* and with no other status.
C12_TimeoutIs504 ==
    [][(OcrReply(1, "timeout") \/ AnalysisReply(1, "timeout"))
          => /\ resp'.op = "upload"
             /\ resp'.status = 504
             /\ ~InFlight(1)']_vars

\* C13: every stored Document Record and every successful upload response
\* carries a non-empty extracted text: when the OCR provider recognizes no
\* text the request ends in an error and nothing is stored.
C13_TextNonEmpty ==
    /\ \A i \in 1..Len(documents) : documents[i].ocr_text # ""
    /\ (resp.op = "upload" /\ resp.status = 200)
          => \A i \in 1..Len(resp.body) : resp.body[i].ocr_text # ""
====
